---- MODULE Spec2Model ----
(***************************************************************************)
(* Model of the resource route handlers of ResourceTracker                 *)
(* (src/app/api/resources/[id]/route.ts): the PUT handler in its two       *)
(* variants (lines 25-95 and lines 162-242), the DELETE handler, the       *)
(* classifier calculateResourceStatus, and the seeding script              *)
(* (src/scripts/populate-resources.ts).  Every database statement the      *)
(* handlers and the script await is one atomic step of the store; the      *)
(* JavaScript between two awaits belongs to the step of the statement      *)
(* before it.  Requests of different callers, and the script, interleave   *)
(* at the awaits (Spec); SpecSeq runs them one after another.              *)
(*                                                                         *)
(* JSON values: a value that may be absent (a body key, a nullable column) *)
(* is a sequence, <<>> for absent/null and <<v>> for the value v.          *)
(* Timestamps (updatedAt, createdAt) and nanoid() row ids are left out:    *)
(* no handler reads them; the ledger is a sequence, so that two equal      *)
(* records stay two records.                                               *)
(***************************************************************************)
EXTENDS Integers, Sequences, FiniteSets, TLC

VARIABLES
    resources,        \* table resources: id -> row, for the ids that have a row
    resourceHistory,  \* table resourceHistory: the records, in insert order
    awarded,          \* the calls of awardPoints made so far
    variant,          \* which of the two texts of route.ts is deployed (1: 1-134, 2: 135-278)
    req,              \* per request: its position and its locals
    script,           \* the seeding script populate-resources.ts: its position
    cq, ct, cstatus   \* classifier run: inputs and result of calculateResourceStatus

vars == <<resources, resourceHistory, awarded, variant, req, script, cq, ct, cstatus>>

(* ------------------------------ bounds --------------------------------- *)

\* number of requests of one behaviour (each may run concurrently with the others)
NumReqs == 2
\* largest quantity a request body carries
MaxQty == 1
\* largest relative delta (body.value) a request body carries
MaxDelta == 1
\* largest quantity and target handed to the classifier
MaxClassify == 9

(* --------------------------- program constants ------------------------- *)

\* estimateTarget(0, 'critical'): the target of a freshly seeded resource
SeedTarget == 1000

Reqs == 1..NumReqs
Ids == {"r1", "r2"}
\* the id nanoid() gives the row of a later run of the seeding script
FreshIds == {"r3"}
Users == {"u1"}
Variants == {1, 2}

None == <<>>
Some(v) == <<v>>

(* ------------------------------ the store ------------------------------ *)

\* A row as the seeding script inserts it.
SeedRow(n) ==
    [ quantity       |-> 0,
      name           |-> n,
      imageUrl       |-> "img",
      category       |-> "Components",
      description    |-> "Components - " \o n,
      targetQuantity |-> Some(SeedTarget),
      multiplier     |-> 1,
      lastUpdatedBy  |-> "AutoScript" ]

Columns == {"quantity", "name", "imageUrl", "category", "description",
            "targetQuantity", "multiplier", "lastUpdatedBy"}

NoUpdates == [c \in Columns |-> None]

\* a select that answers a missing id with a default row
DbSelect_Default(id) == IF id \in DOMAIN resources THEN <<resources[id]>> ELSE <<SeedRow(id)>>

\* db.select().from(resources).where(eq(resources.id, id)): the rows found
DbSelect(id) == IF id \in DOMAIN resources THEN <<resources[id]>> ELSE <<>>

\* db.update(resources).set(updates).where(eq(resources.id, id)): the columns
\* named in updates are written, the others kept; no row, no effect.
DbUpdate(id, updates) ==
    IF id \in DOMAIN resources
    THEN [resources EXCEPT ![id] =
            [c \in Columns |-> IF updates[c] /= None THEN updates[c][1]
                                                     ELSE resources[id][c]]]
    ELSE resources

\* a foreign key that is declared and not enforced
ForeignKeyOk_Unenforced(id) == TRUE

\* The foreign key resourceHistory.resourceId -> resources.id.  The schema is in
\* lib/db, outside these sources; DELETE orders its statements "due to foreign
\* key constraint" (route.ts:117) and the data model calls resourceId a foreign
\* reference to the owning Resource.  A record needs its resource row.
ForeignKeyOk(id) == id \in DOMAIN resources

HistoryOf(id) == SelectSeq(resourceHistory, LAMBDA h : h.resourceId = id)

\* db.insert(resourceHistory).values(rec), guarded by `if (changeAmount !== 0)`
DbInsertHistory_SkipNoChange(rec) ==
    IF rec.changeAmount = Some(0) THEN resourceHistory ELSE Append(resourceHistory, rec)

\* an insert that replaces the resource's earlier records (one record a resource)
DbInsertHistory_Replace(rec) ==
    Append(SelectSeq(resourceHistory, LAMBDA h : h.resourceId /= rec.resourceId), rec)

\* db.insert(resourceHistory).values(rec)
DbInsertHistory(rec) == Append(resourceHistory, rec)

\* db.delete(resourceHistory) without its where clause
DbDeleteHistory_NoWhere(id) == SelectSeq(resourceHistory, LAMBDA h : FALSE)

\* db.delete(resourceHistory).where(eq(resourceHistory.resourceId, id))
DbDeleteHistory(id) == SelectSeq(resourceHistory, LAMBDA h : h.resourceId /= id)

\* db.delete(resources).where(eq(resources.id, id)); the foreign key forbids
\* it while a record of the resource is left.
CanDeleteResource(id) == Len(HistoryOf(id)) = 0
DbDeleteResource(id) == [i \in DOMAIN resources \ {id} |-> resources[i]]

\* db.delete(resources), every row in one statement: the foreign key refuses
\* the statement while a record of any of the rows is left.
CanDeleteAllResources == \A i \in DOMAIN resources : CanDeleteResource(i)
DbDeleteAllResources == [i \in {} |-> resources[i]]

\* db.insert(resources).values(batch)
DbInsertResources(batch) ==
    [i \in DOMAIN resources \cup DOMAIN batch |->
        IF i \in DOMAIN batch THEN batch[i] ELSE resources[i]]

(* --------------------------- request bodies ---------------------------- *)

MetaKeys == {"name", "imageUrl", "category", "description",
             "targetQuantity", "multiplier"}
TextKeys == {"name", "imageUrl", "category", "description"}
Keys == {"quantity", "updateType", "value", "reason"} \cup MetaKeys

EmptyBody == [k \in Keys |-> None]
With(b, k, v) == [b EXCEPT ![k] = Some(v)]

\* 'k' in body
In(k, b) == b[k] /= None

Qtys == -1..MaxQty
Deltas == -1..MaxDelta

\* The values a body carries for a metadata key: a falsy one and a truthy one.
MetaValues(k) ==
    IF k \in TextKeys THEN {"", "x"}
    ELSE IF k = "targetQuantity" THEN {Some(0), Some(2)}
    ELSE {0, 2}

\* body.quantity is a JSON number, Some(q), or JSON null, None.
QuantityBodies ==
    {With(EmptyBody, "quantity", Some(q)) : q \in Qtys}
    \cup {With(With(EmptyBody, "quantity", Some(q)), "updateType", "absolute") : q \in Qtys}
    \cup {With(With(With(EmptyBody, "quantity", Some(q)), "updateType", "relative"),
               "value", v) : q \in Qtys, v \in Deltas}
    \cup {With(With(EmptyBody, "quantity", Some(MaxQty)), "reason", "restock")}

\* { quantity: null }: the key is there, a number is not
NullQuantityBodies == {With(EmptyBody, "quantity", None)}

\* { updateType: 'relative', value: v }: a relative update without a quantity key
ValueOnlyBodies ==
    {With(With(EmptyBody, "updateType", "relative"), "value", MaxDelta)}

FullMetadataBody(falsy) ==
    [k \in Keys |->
        IF k \in TextKeys THEN Some(IF falsy THEN "" ELSE "y")
        ELSE IF k = "targetQuantity" THEN Some(Some(IF falsy THEN 0 ELSE 3))
        ELSE IF k = "multiplier" THEN Some(IF falsy THEN 0 ELSE 3)
        ELSE None]

MetadataBodies ==
    {EmptyBody}
    \cup UNION {{With(EmptyBody, k, v) : v \in MetaValues(k)} : k \in MetaKeys}
    \cup {FullMetadataBody(f) : f \in BOOLEAN}

Bodies == QuantityBodies \cup NullQuantityBodies \cup ValueOnlyBodies \cup MetadataBodies

(* ------------------------------ requests ------------------------------- *)

IdleReq ==
    [ pc       |-> "idle",    \* idle, update, insert, meta, delHist, delRes, done
      op       |-> "none",    \* PUT or DELETE
      id       |-> "r1",      \* params.id
      userId   |-> "u1",      \* getUserIdentifier(session)
      body     |-> EmptyBody, \* await request.json()
      existing |-> None,      \* the row the handler's select returned
      wrote    |-> FALSE,     \* history: the request's first write was applied (PUT: the
                              \* quantity update of the row; DELETE: the history deletion)
      stale    |-> FALSE,     \* history: the metadata write met a quantity newer than existing's
      resp     |-> "none" ]   \* the response returned

\* Locals of the quantity path (route.ts:48-50, 190-193).
Quantity(q) == q.body["quantity"][1][1]
UpdateType(q) == IF In("updateType", q.body) THEN q.body["updateType"][1] ELSE "absolute"
\* previousQuantity taken as the seeded quantity, not the loaded one
PreviousQuantity_Seed(q) == 0

PreviousQuantity(q) == q.existing[1].quantity
\* changeAmount as the submitted number itself, whatever the update type
ChangeAmount_NoSubtract(q) ==
    IF UpdateType(q) = "relative" THEN q.body["value"]
    ELSE Some(Quantity(q))

\* changeAmount with the subtraction turned round
ChangeAmount_Reversed(q) ==
    IF UpdateType(q) = "relative" THEN q.body["value"]
    ELSE Some(PreviousQuantity(q) - Quantity(q))

ChangeAmount(q) ==
    IF UpdateType(q) = "relative" THEN q.body["value"]
    ELSE Some(Quantity(q) - PreviousQuantity(q))

\* The column resources.quantity takes numbers only (an integer column that is
\* NOT NULL; the schema is in lib/db, outside these sources): a null is refused.
QuantityColumnAccepts(q) == q.body["quantity"] /= Some(None)

\* The column values of db.update(...).set({quantity, lastUpdatedBy, updatedAt})
QuantityUpdates(q) ==
    [NoUpdates EXCEPT !["quantity"] = Some(Quantity(q)),
                      !["lastUpdatedBy"] = Some(q.userId)]

\* The values of db.insert(resourceHistory).values({...})
HistoryRecord(q) ==
    [ resourceId       |-> q.id,
      previousQuantity |-> PreviousQuantity(q),
      newQuantity      |-> Quantity(q),
      changeAmount     |-> ChangeAmount(q),
      changeType       |-> UpdateType(q),
      updatedBy        |-> q.userId,
      reason           |-> q.body["reason"] ]

\* JavaScript truthiness of a text value
Truthy(v) == v /= ""

\* set({ ...existing, ...body }): the loaded row written back with the body's fields
MetadataUpdates_Spread(q) ==
    [c \in Columns |->
        IF c \in MetaKeys /\ In(c, q.body) THEN q.body[c] ELSE Some(q.existing[1][c])]

\* The metadata columns the handler writes: variant 1 spreads `name && { name }`
\* for the four text fields (route.ts:80-83) and tests `!== undefined` for
\* targetQuantity and multiplier (84-85); variant 2 tests `'k' in body` (225-230).
MetadataUpdatesOf(v, q) ==
    [c \in Columns |->
        IF c \notin MetaKeys THEN None
        ELSE IF ~In(c, q.body) THEN None
        ELSE IF v = 1 /\ c \in TextKeys /\ ~Truthy(q.body[c][1]) THEN None
        ELSE q.body[c]]

\* the metadata columns the deployed handler writes
MetadataUpdates(q) == MetadataUpdatesOf(variant, q)

(* ---------------------------- the classifier --------------------------- *)

\* (quantity / targetQuantity) * 100 as the exact fraction <<numerator, denominator>>
\* (targetQuantity > 0 here); for counts the double result compares with 50, 100
\* and 150 as the fraction does.
Percentage(quantity, target) == <<quantity * 100, target>>
\* percentage > n
AtLeast_Strict(p, n) == p[1] > n * p[2]

\* percentage >= n
AtLeast(p, n) == p[1] >= n * p[2]

\* calculateResourceStatus(quantity, targetQuantity); targetQuantity is None for null.
calculateResourceStatus(quantity, targetQuantity) ==
    IF targetQuantity = None \/ targetQuantity[1] = 0 \/ targetQuantity[1] <= 0
    THEN "at_target"
    ELSE LET percentage == Percentage(quantity, targetQuantity[1]) IN
         IF AtLeast(percentage, 150) THEN "above_target"
         ELSE IF AtLeast(percentage, 100) THEN "at_target"
         ELSE IF AtLeast(percentage, 50) THEN "below_target"
         ELSE "critical"

(* ------------------------------- actions ------------------------------- *)

Store == <<resources, resourceHistory, awarded>>
Fixed == <<variant, script, cq, ct, cstatus>>

\* The handler returns: its locals are gone, the response (with the operation and
\* the id it answered) is what is left of the request.
Returned(q, resp) ==
    [IdleReq EXCEPT !.pc = "done", !.op = q.op, !.id = q.id,
                    !.wrote = q.wrote, !.stale = q.stale, !.resp = resp]

Respond(r, resp) == req' = [req EXCEPT ![r] = Returned(req[r], resp)]

\* Requests are numbered in the order in which they arrive.
Arrives(r) == req[r].pc = "idle" /\ \A p \in Reqs : p < r => req[p].pc /= "idle"

\* PUT, up to its first statement: the body is parsed, the row selected, and the
\* request dispatched on 'quantity' in body (route.ts:36-47, 171-189).  The
\* caller is authorized.
PutLoad(r, id, u, b) ==
    /\ Arrives(r)
    /\ LET q == [req[r] EXCEPT !.op = "PUT", !.id = id,
                               !.userId = u, !.body = b] IN
       \E ok \in BOOLEAN :
         LET current == DbSelect(id) IN
         req' = [req EXCEPT ![r] =
                   IF ~ok THEN Returned(q, "Failed")
                   ELSE IF Len(current) = 0
                        THEN Returned(q, "NotFound")
                   ELSE [q EXCEPT !.existing = Some(current[1]),
                                  !.pc = IF In("quantity", b) THEN "update" ELSE "meta"]]
    /\ UNCHANGED <<Store, Fixed>>

\* await db.update(resources).set({quantity, lastUpdatedBy, updatedAt}) (52-58, 195-202)
PutUpdateQuantity(r) ==
    /\ req[r].pc = "update"
    /\ \E ok \in BOOLEAN :
         IF ok /\ QuantityColumnAccepts(req[r])
         THEN /\ resources' = DbUpdate(req[r].id, QuantityUpdates(req[r]))
              /\ req' = [req EXCEPT ![r].pc = "insert",
                                    ![r].wrote = req[r].id \in DOMAIN resources]
         ELSE /\ Respond(r, "Failed")
              /\ UNCHANGED resources
    /\ UNCHANGED <<resourceHistory, awarded, Fixed>>

\* await db.insert(resourceHistory).values({...}); return 'Quantity updated'
\* (60-72, 204-216).  awardPoints is imported and never called.
PutInsertHistory(r) ==
    /\ req[r].pc = "insert"
    /\ \E ok \in BOOLEAN :
         IF ok /\ ForeignKeyOk(req[r].id)
         THEN /\ resourceHistory' = DbInsertHistory(HistoryRecord(req[r]))
              /\ Respond(r, "QuantityUpdated")
         ELSE /\ Respond(r, "Failed")
              /\ UNCHANGED resourceHistory
    /\ UNCHANGED <<resources, awarded, Fixed>>

\* await db.update(resources).set({...metadata}); return 'Metadata updated'
\* (76-90, 220-237)
PutUpdateMetadata(r) ==
    /\ req[r].pc = "meta"
    /\ \E ok \in BOOLEAN :
         IF ok
         THEN /\ resources' = DbUpdate(req[r].id, MetadataUpdates(req[r]))
              /\ req' = [req EXCEPT ![r] =
                          Returned([req[r] EXCEPT !.stale =
                                      /\ req[r].id \in DOMAIN resources
                                      /\ resources[req[r].id].quantity
                                           /= req[r].existing[1].quantity],
                                   "MetadataUpdated")]
         ELSE /\ Respond(r, "Failed")
              /\ UNCHANGED resources
    /\ UNCHANGED <<resourceHistory, awarded, Fixed>>

\* DELETE, up to its select (110-115, 254-262).  The caller is an admin.
DeleteLoad(r, id) ==
    /\ Arrives(r)
    /\ LET q == [req[r] EXCEPT !.op = "DELETE", !.id = id] IN
       \E ok \in BOOLEAN :
         LET resource == DbSelect(id) IN
         req' = [req EXCEPT ![r] =
                   IF ~ok THEN Returned(q, "Failed")
                   ELSE IF Len(resource) = 0
                        THEN Returned(q, "NotFound")
                   ELSE [q EXCEPT !.existing = Some(resource[1]), !.pc = "delHist"]]
    /\ UNCHANGED <<Store, Fixed>>

\* the history deletion with its error swallowed: the handler goes on to the row
DeleteHistory_Swallow(r) ==
    /\ req[r].pc = "delHist"
    /\ \E ok \in BOOLEAN :
         IF ok
         THEN /\ resourceHistory' = DbDeleteHistory(req[r].id)
              /\ req' = [req EXCEPT ![r].pc = "delRes", ![r].wrote = TRUE]
         ELSE /\ req' = [req EXCEPT ![r].pc = "delRes"]
              /\ UNCHANGED resourceHistory
    /\ UNCHANGED <<resources, awarded, Fixed>>

\* await db.delete(resourceHistory).where(...) (118, 264)
DeleteHistory(r) ==
    /\ req[r].pc = "delHist"
    /\ \E ok \in BOOLEAN :
         IF ok
         THEN /\ resourceHistory' = DbDeleteHistory(req[r].id)
              /\ req' = [req EXCEPT ![r].pc = "delRes", ![r].wrote = TRUE]
         ELSE /\ Respond(r, "Failed")
              /\ UNCHANGED resourceHistory
    /\ UNCHANGED <<resources, awarded, Fixed>>

\* await db.delete(resources).where(...); return the success message (121-129, 265-273)
DeleteResource(r) ==
    /\ req[r].pc = "delRes"
    /\ \E ok \in BOOLEAN :
         IF ok /\ CanDeleteResource(req[r].id)
         THEN /\ resources' = DbDeleteResource(req[r].id)
              /\ Respond(r, "Deleted")
         ELSE /\ Respond(r, "Failed")
              /\ UNCHANGED resources
    /\ UNCHANGED <<resourceHistory, awarded, Fixed>>

\* generateResourcesFromFiles(): one row per image file, under a fresh id
generateResourcesFromFiles == [i \in FreshIds |-> SeedRow(i)]

\* populateResources, its first statement: await db.delete(resources)
\* (populate-resources.ts:85-88); an error ends the script (110-112).
PopulateDelete ==
    /\ script = "idle"
    /\ \E ok \in BOOLEAN :
         IF ok /\ CanDeleteAllResources
         THEN /\ resources' = DbDeleteAllResources
              /\ script' = "insert"
         ELSE /\ script' = "done"
              /\ UNCHANGED resources
    /\ UNCHANGED <<resourceHistory, awarded, variant, req, cq, ct, cstatus>>

\* populateResources, its batch insert: await db.insert(resources).values(batch)
\* (populate-resources.ts:90-95)
PopulateInsert ==
    /\ script = "insert"
    /\ \E ok \in BOOLEAN :
         IF ok
         THEN resources' = DbInsertResources(generateResourcesFromFiles)
         ELSE UNCHANGED resources
    /\ script' = "done"
    /\ UNCHANGED <<resourceHistory, awarded, variant, req, cq, ct, cstatus>>

Init ==
    /\ resources = [i \in Ids |-> SeedRow(i)]
    /\ resourceHistory = <<>>
    /\ awarded = <<>>
    /\ variant \in Variants
    /\ req = [r \in Reqs |-> IdleReq]
    /\ script = "idle"
    /\ cq = 0
    /\ ct = None
    /\ cstatus = "none"

Next ==
    \/ \E r \in Reqs :
          \/ \E id \in Ids, u \in Users, b \in Bodies : PutLoad(r, id, u, b)
          \/ PutUpdateQuantity(r)
          \/ PutInsertHistory(r)
          \/ PutUpdateMetadata(r)
          \/ \E id \in Ids : DeleteLoad(r, id)
          \/ DeleteHistory(r)
          \/ DeleteResource(r)
    \/ PopulateDelete
    \/ PopulateInsert

Spec == Init /\ [][Next]_vars

(* ---------- the requests one after another, the store not failing ------- *)

InProgress(q) == q.pc \notin {"idle", "done"}

\* At most one handler or script run is between its first and its last statement.
OneAtATime ==
    Cardinality({r \in Reqs : InProgress(req[r])})
        + (IF script = "insert" THEN 1 ELSE 0) <= 1

\* No statement has thrown: no request has answered 500.
NoFailure == \A r \in Reqs : req[r].resp /= "Failed"

\* a step that keeps the run sequential and unfailing
Sequential(A) == A /\ OneAtATime' /\ NoFailure'

NextSeq ==
    \/ \E r \in Reqs :
          \/ Sequential(\E id \in Ids, u \in Users, b \in Bodies : PutLoad(r, id, u, b))
          \/ Sequential(PutUpdateQuantity(r))
          \/ Sequential(PutInsertHistory(r))
          \/ Sequential(PutUpdateMetadata(r))
          \/ Sequential(\E id \in Ids : DeleteLoad(r, id))
          \/ Sequential(DeleteHistory(r))
          \/ Sequential(DeleteResource(r))
    \/ Sequential(PopulateDelete)
    \/ Sequential(PopulateInsert)

SpecSeq == Init /\ [][NextSeq]_vars

(* ------------------- the classifier run on its own --------------------- *)

Targets == {None} \cup {Some(t) : t \in -1..MaxClassify}

InitStatus ==
    /\ resources = [i \in Ids |-> SeedRow(i)]
    /\ resourceHistory = <<>>
    /\ awarded = <<>>
    /\ variant \in Variants
    /\ req = [r \in Reqs |-> IdleReq]
    /\ script = "idle"
    /\ cq \in 0..MaxClassify
    /\ ct \in Targets
    /\ cstatus = "none"

\* status = calculateResourceStatus(quantity, targetQuantity)
Classify ==
    /\ cstatus = "none"
    /\ cstatus' = calculateResourceStatus(cq, ct)
    /\ UNCHANGED <<Store, variant, req, script, cq, ct>>

\* the same resource one unit fuller, classified again
Grow ==
    /\ cstatus /= "none"
    /\ cq < MaxClassify
    /\ cq' = cq + 1
    /\ cstatus' = calculateResourceStatus(cq + 1, ct)
    /\ UNCHANGED <<Store, variant, req, script, ct>>

NextStatus == Classify \/ Grow

SpecStatus == InitStatus /\ [][NextStatus]_vars

(* ------------------------------- claims -------------------------------- *)

Last(s) == s[Len(s)]

RECURSIVE SumChange(_)
SumChange(h) == IF Len(h) = 0 THEN 0 ELSE h[1].changeAmount[1] + SumChange(Tail(h))

\* the steps of the handlers, read off a transition
Writes(r) == req[r].pc = "update" /\ req'[r].pc = "insert" /\ req[r].id \in DOMAIN resources
Commits(r) == req[r].pc = "insert" /\ req'[r].resp = "QuantityUpdated"
MetaStep(r) == req[r].pc = "meta" /\ req'[r].pc = "done"
MetaCommits(r) == req[r].pc = "meta" /\ req'[r].resp = "MetadataUpdated"

Committed(r, id) ==
    /\ req[r].pc = "done" /\ req[r].op = "PUT"
    /\ req[r].id = id /\ req[r].resp = "QuantityUpdated"

\* C1: when every request of the run is a committed relative update of the same
\* resource (each asking for the quantity it loaded plus its delta), the stored
\* quantity is the seeded 0 plus the sum of the deltas and the ledger holds one
\* record per request: no update is lost.
C1_NoLostUpdate ==
    \A id \in Ids :
        ( /\ \A r \in Reqs : Committed(r, id)
          /\ \A k \in 1..Len(resourceHistory) :
                /\ resourceHistory[k].changeType = "relative"
                /\ resourceHistory[k].newQuantity =
                     resourceHistory[k].previousQuantity + resourceHistory[k].changeAmount[1] )
        => /\ id \in DOMAIN resources
           /\ resources[id].quantity = SumChange(HistoryOf(id))
           /\ Len(HistoryOf(id)) = NumReqs

\* C2: once a PUT has ended, committed or aborted, its quantity write is in the
\* resource row if and only if its HistoryRecord is in the ledger.
C2_QuantityPathAtomic ==
    \A r \in Reqs :
        (req[r].pc = "done" /\ req[r].op = "PUT" /\ req[r].id \in DOMAIN resources)
        => (req[r].wrote <=> req[r].resp = "QuantityUpdated")

\* C3: a relative update with value v of a resource loaded with quantity prev
\* stores prev + v and appends the record (prev, prev + v, v).
C3_RelativeUpdate ==
    [][\A r \in Reqs :
        (req[r].pc \in {"update", "insert"} /\ UpdateType(req[r]) = "relative") =>
          LET prev == PreviousQuantity(req[r])
              v == req[r].body["value"][1] IN
          /\ Writes(r) => resources'[req[r].id].quantity = prev + v
          /\ Commits(r) =>
               /\ Len(resourceHistory') = Len(resourceHistory) + 1
               /\ Last(resourceHistory').resourceId = req[r].id
               /\ Last(resourceHistory').previousQuantity = prev
               /\ Last(resourceHistory').newQuantity = prev + v
               /\ Last(resourceHistory').changeAmount = Some(v)]_vars

\* C4: an update with quantity q whose updateType is 'absolute' or absent, of a
\* resource loaded with quantity prev, stores q and appends the record
\* (prev, q, q - prev) of changeType 'absolute'.
C4_AbsoluteUpdate ==
    [][\A r \in Reqs :
        ( /\ req[r].pc \in {"update", "insert"}
          /\ (~In("updateType", req[r].body) \/ req[r].body["updateType"] = Some("absolute")) )
        =>
          LET prev == req[r].existing[1].quantity
              q == req[r].body["quantity"][1][1] IN
          /\ Writes(r) => resources'[req[r].id].quantity = q
          /\ Commits(r) =>
               /\ Len(resourceHistory') = Len(resourceHistory) + 1
               /\ Last(resourceHistory').resourceId = req[r].id
               /\ Last(resourceHistory').previousQuantity = prev
               /\ Last(resourceHistory').newQuantity = q
               /\ Last(resourceHistory').changeAmount = Some(q - prev)
               /\ Last(resourceHistory').changeType = "absolute"]_vars

\* C4 witness: an update without updateType has written its quantity, which
\* differs from the one it loaded, after an absolute update was recorded.
C4_Witness ==
    \E r \in Reqs :
        /\ req[r].pc = "insert"
        /\ ~In("updateType", req[r].body)
        /\ req[r].id \in DOMAIN resources
        /\ resources[req[r].id].quantity = req[r].body["quantity"][1][1]
        /\ req[r].existing[1].quantity /= req[r].body["quantity"][1][1]
        /\ \E k \in 1..Len(resourceHistory) :
              /\ resourceHistory[k].changeType = "absolute"
              /\ resourceHistory[k].changeAmount /= Some(0)
              /\ resourceHistory[k].previousQuantity = 0

HistoryIn(ledger, id) == SelectSeq(ledger, LAMBDA h : h.resourceId = id)

\* C5: of a resource no DELETE was asked for, the ledger holds as many records
\* as quantity-path PUTs have committed (a zero change counts, a metadata PUT
\* does not).
C5_HistoryCount ==
    \A id \in Ids :
        (\A r \in Reqs : req[r].op = "DELETE" => req[r].id /= id)
        => Len(HistoryOf(id)) = Cardinality({r \in Reqs : Committed(r, id)})

\* C5 witness: one record of change 0 is all the ledger holds of a resource
\* for which a quantity PUT and a metadata PUT have committed.
C5_Witness ==
    \E id \in Ids, r \in Reqs, p \in Reqs :
        /\ Committed(r, id)
        /\ req[p].pc = "done" /\ req[p].id = id /\ req[p].resp = "MetadataUpdated"
        /\ Len(HistoryOf(id)) = 1
        /\ HistoryOf(id)[1].changeAmount = Some(0)

\* C6: a step of the metadata path changes no resource's quantity and leaves
\* the ledger as it is, whatever ran between its load and its write.
C6_MetadataFrame ==
    [][\A r \in Reqs : MetaStep(r) =>
        /\ resourceHistory' = resourceHistory
        /\ awarded' = awarded
        /\ DOMAIN resources' = DOMAIN resources
        /\ \A i \in DOMAIN resources : resources'[i].quantity = resources[i].quantity]_vars

\* C6 witness: a metadata PUT has committed over a quantity written after its load.
C6_Witness ==
    \E r \in Reqs : req[r].resp = "MetadataUpdated" /\ req[r].stale

\* C7: a committed metadata PUT stores the body's value of each metadata field
\* that is in the body, falsy or not, and keeps the stored value of each that is not.
C7_PresenceKeyedMerge ==
    [][\A r \in Reqs : (MetaCommits(r) /\ req[r].id \in DOMAIN resources) =>
        \A k \in MetaKeys :
            resources'[req[r].id][k] =
                IF In(k, req[r].body) THEN req[r].body[k][1] ELSE resources[req[r].id][k]]_vars

Rank(s) ==
    CASE s = "critical" -> 0 [] s = "below_target" -> 1
      [] s = "at_target" -> 2 [] s = "above_target" -> 3

\* C8: the status of quantity q >= 0 against target t is at_target when t is
\* null or <= 0, else above_target from 150 percent, at_target from 100,
\* below_target from 50 and critical below that, each boundary in the higher
\* tier; and the tier does not fall when q grows.
C8_StatusClassification ==
    [][cstatus' /= "none" =>
        /\ cstatus' =
             IF ct' = None THEN "at_target"
             ELSE IF ct'[1] <= 0 THEN "at_target"
             ELSE IF 100 * cq' >= 150 * ct'[1] THEN "above_target"
             ELSE IF 100 * cq' >= 100 * ct'[1] THEN "at_target"
             ELSE IF 100 * cq' >= 50 * ct'[1] THEN "below_target"
             ELSE "critical"
        /\ (cstatus /= "none" /\ cq' > cq /\ ct' = ct) => Rank(cstatus') >= Rank(cstatus)]_vars

\* C8 witness: a quantity of exactly 150 percent of its target, grown from a
\* smaller one, is classified above_target.
C8_Witness ==
    /\ cstatus = "above_target"
    /\ ct /= None
    /\ 100 * cq = 150 * ct[1]

Abs(n) == IF n < 0 THEN -n ELSE n

\* C10: the step that commits a quantity-path PUT calls awardPoints exactly
\* once when changeAmount /= 0 (SET for absolute, ADD or REMOVE by the sign for
\* relative, magnitude |changeAmount|, status of the pre-update quantity and
\* target) and not at all when changeAmount = 0.
C10_ScoringTrigger ==
    [][\A r \in Reqs : Commits(r) =>
        LET change == ChangeAmount(req[r])[1] IN
        IF change = 0 THEN awarded' = awarded
        ELSE awarded' = Append(awarded,
               [ actorId    |-> req[r].userId,
                 resourceId |-> req[r].id,
                 actionType |-> IF UpdateType(req[r]) /= "relative" THEN "SET"
                                ELSE IF change > 0 THEN "ADD" ELSE "REMOVE",
                 magnitude  |-> Abs(change),
                 status     |-> calculateResourceStatus(PreviousQuantity(req[r]),
                                    req[r].existing[1].targetQuantity) ])]_vars

\* C11: a PUT whose body has a quantity-change field (quantity, or the value of
\* a relative update) takes the quantity path and any other body the metadata
\* path; so { updateType: 'relative', value } without a quantity key goes on to
\* the quantity update.
C11_Dispatch ==
    [][\A r \in Reqs :
        (req[r].pc = "idle" /\ req'[r].op = "PUT" /\ req'[r].pc /= "done") =>
          ( req'[r].pc = "update"
            <=> (In("quantity", req'[r].body) \/ In("value", req'[r].body)) )]_vars

\* C12: a quantity-path PUT whose body has neither a numeric quantity nor a
\* numeric value ends with InvalidUpdateRequest and leaves the resource rows
\* and the ledger as they were.
C12_InvalidRequestRejected ==
    [][\A r \in Reqs :
        ( /\ req[r].pc = "update"
          /\ req[r].body["quantity"] = Some(None)
          /\ ~In("value", req[r].body)
          /\ req'[r] /= req[r] )
        => /\ req'[r].resp = "InvalidUpdateRequest"
           /\ resources' = resources
           /\ resourceHistory' = resourceHistory]_vars

\* C13: the first step of a PUT for an id that has no row ends the request with
\* NotFound (or with the failure of its select) and changes neither table; and
\* NotFound is answered for no id that has a row.
C13_UnknownResource ==
    [][\A r \in Reqs : (req[r].pc = "idle" /\ req'[r].op = "PUT") =>
        /\ req'[r].id \notin DOMAIN resources =>
             /\ req'[r].pc = "done"
             /\ req'[r].resp \in {"NotFound", "Failed"}
             /\ resources' = resources
             /\ resourceHistory' = resourceHistory
        /\ req'[r].resp = "NotFound" => req'[r].id \notin DOMAIN resources]_vars

\* C13 witness: a PUT for a deleted resource was answered NotFound.
C13_Witness ==
    \E r \in Reqs :
        /\ req[r].op = "PUT" /\ req[r].resp = "NotFound"
        /\ req[r].id \notin DOMAIN resources

\* C14: whenever no request is in progress, every stored resource has
\* quantity >= 0.
C14_NonNegativeQuantity ==
    (\A r \in Reqs : req[r].pc \in {"idle", "done"})
    => \A i \in DOMAIN resources : resources[i].quantity >= 0

\* C15: an absolute update that submits the quantity the resource has leaves
\* that quantity as it is when it writes, and, submitted against the quantity it
\* loaded, records changeAmount = 0 and makes no call of awardPoints; so of two
\* equal absolute updates applied one after the other the second records a
\* change of 0 and the stored quantity is that of the first.
C15_AbsoluteIdempotence ==
    [][\A r \in Reqs :
        (req[r].pc \in {"update", "insert"} /\ UpdateType(req[r]) = "absolute") =>
          /\ (Writes(r) /\ Quantity(req[r]) = resources[req[r].id].quantity)
               => resources'[req[r].id].quantity = resources[req[r].id].quantity
          /\ (Commits(r) /\ Quantity(req[r]) = PreviousQuantity(req[r]))
               => /\ Last(resourceHistory').changeAmount = Some(0)
                  /\ Last(resourceHistory').newQuantity = PreviousQuantity(req[r])
                  /\ awarded' = awarded]_vars

\* C15 witness: the same absolute update of a quantity other than the seeded 0
\* was committed twice, one after the other; the second recorded no change.
C15_Witness ==
    \E id \in DOMAIN resources :
        /\ \A r \in Reqs : Committed(r, id)
        /\ Len(HistoryOf(id)) = 2
        /\ HistoryOf(id)[1].changeType = "absolute"
        /\ HistoryOf(id)[2].changeType = "absolute"
        /\ HistoryOf(id)[1].newQuantity /= 0
        /\ HistoryOf(id)[1].changeAmount = Some(HistoryOf(id)[1].newQuantity)
        /\ HistoryOf(id)[2].previousQuantity = HistoryOf(id)[1].newQuantity
        /\ HistoryOf(id)[2].newQuantity = HistoryOf(id)[1].newQuantity
        /\ HistoryOf(id)[2].changeAmount = Some(0)
        /\ resources[id].quantity = HistoryOf(id)[1].newQuantity

IsPrefix(s, t) == Len(s) <= Len(t) /\ SubSeq(t, 1, Len(s)) = s

\* C17: every step leaves the records of the ledger as they are and in their
\* order, adding at most new ones behind them, except the history deletion of a
\* DELETE, which takes out the records of its own resource and no others; no
\* step of a PUT and no step of the seeding script changes or removes a record.
C17_AppendOnlyLedger ==
    [][/\ \/ IsPrefix(resourceHistory, resourceHistory')
          \/ \E r \in Reqs :
                /\ req[r].op = "DELETE" /\ req[r].pc = "delHist"
                /\ req'[r] /= req[r]
                /\ resourceHistory' =
                     SelectSeq(resourceHistory, LAMBDA h : h.resourceId /= req[r].id)
       /\ \A r \in Reqs : (req'[r] /= req[r] /\ req'[r].op = "PUT")
             => IsPrefix(resourceHistory, resourceHistory')
       /\ script' /= script => resourceHistory' = resourceHistory]_vars

\* C17 witness: the record of one quantity PUT is still the first of the ledger,
\* as it was written, after a second PUT of the same resource wrote the row and
\* appended its own.
C17_Witness ==
    \E id \in DOMAIN resources :
        /\ \A r \in Reqs : Committed(r, id)
        /\ Len(resourceHistory) = 2
        /\ resourceHistory[1].resourceId = id
        /\ resourceHistory[1].previousQuantity = 0
        /\ resourceHistory[2].previousQuantity = resourceHistory[1].newQuantity
        /\ resourceHistory[2].newQuantity /= resourceHistory[1].newQuantity

\* C18: a DELETE removes its resource row only in the step after its history
\* deletion has completed (the step that completes it leaves no record of the
\* resource and the row in place); a DELETE whose history deletion fails ends
\* with the failure response in that step and leaves the rows as they are.
C18_DeleteOrdering ==
    [][\A r \in Reqs : (req'[r] /= req[r] /\ req'[r].op = "DELETE") =>
        /\ (req[r].id \in DOMAIN resources /\ req[r].id \notin DOMAIN resources')
             => req[r].pc = "delRes" /\ req[r].wrote
        /\ req'[r].pc = "delRes" =>
             /\ req[r].pc = "delHist" /\ req'[r].wrote
             /\ Len(HistoryIn(resourceHistory', req[r].id)) = 0
             /\ resources' = resources
        /\ (req[r].pc = "delHist" /\ resourceHistory' = resourceHistory
               /\ Len(HistoryOf(req[r].id)) > 0)
             => /\ req'[r].pc = "done" /\ req'[r].resp = "Failed"
                /\ resources' = resources]_vars

\* C18 witness: a DELETE has completed its history deletion, which took out the
\* record a committed PUT had written, and has its row removal still ahead: the
\* row is in place.
C18_Witness ==
    \E r \in Reqs, p \in Reqs :
        /\ req[r].op = "DELETE" /\ req[r].pc = "delRes" /\ req[r].wrote
        /\ Committed(p, req[r].id)
        /\ req[r].id \in DOMAIN resources
        /\ Len(HistoryOf(req[r].id)) = 0

AtRest == \A r \in Reqs : ~InProgress(req[r])

\* C19: with the requests run one after another and no statement failing, each
\* record's previousQuantity is the newQuantity of the record before it of the
\* same resource, and after every request the stored quantity of a resource
\* that has records is the newQuantity of its last record.
C19_LedgerChain ==
    \A id \in DOMAIN resources :
        LET h == HistoryOf(id) IN
        /\ \A k \in 2..Len(h) : h[k].previousQuantity = h[k - 1].newQuantity
        /\ (AtRest /\ Len(h) > 0) => resources[id].quantity = Last(h).newQuantity

\* C19 witness: two quantity PUTs of one resource have run one after the other,
\* the second a relative one, each changing the quantity; the row holds the
\* second's.
C19_Witness ==
    \E id \in DOMAIN resources :
        LET h == HistoryOf(id) IN
        /\ AtRest
        /\ Len(h) = 2
        /\ h[1].newQuantity /= 0
        /\ h[2].changeType = "relative"
        /\ h[2].previousQuantity = h[1].newQuantity
        /\ h[2].newQuantity /= h[1].newQuantity
        /\ resources[id].quantity = h[2].newQuantity

\* C20: every step of a PUT is the step either handler text takes from the same
\* state on the same request: the same dispatch, the same rows and records
\* written, the same response.  The two texts share the quantity path word for
\* word; on the metadata path each writes the other's columns.
C20_VariantEquivalence ==
    [][\A r \in Reqs : (req'[r] /= req[r] /\ req'[r].op = "PUT") =>
        \A v \in Variants :
          /\ MetaCommits(r) =>
               /\ resources' = DbUpdate(req[r].id, MetadataUpdatesOf(v, req[r]))
               /\ resourceHistory' = resourceHistory
          /\ Writes(r) => resources' = DbUpdate(req[r].id, QuantityUpdates(req[r]))
          /\ Commits(r) => resourceHistory' = DbInsertHistory(HistoryRecord(req[r]))]_vars

====
